---- MODULE Spec2Model ----
(***************************************************************************)
(* Model of app.py: the module-level knowledge base and its embedding      *)
(* matrix, retrieve_relevant_context, generate_response and the            *)
(* ActiveLearningSystem (uncertain-query queue, clustering, knowledge-base *)
(* update).                                                                *)
(*                                                                         *)
(* Texts are strings; the embedding model is a fixed map from texts to     *)
(* 2-dimensional integer vectors, so cosine similarity and Euclidean       *)
(* distance are compared exactly.  A response is modelled by its length.   *)
(* Positions are 1-based: id i here is Python index i-1.                   *)
(***************************************************************************)
EXTENDS Integers, Sequences, FiniteSets, TLC

VARIABLES knowledge_base, knowledge_embeddings, uncertain_queries,
          analytics_logged, ret, pc, loc

vars == <<knowledge_base, knowledge_embeddings, uncertain_queries,
          analytics_logged, ret, pc, loc>>

---------------------------------------------------------------------------
(* Bounds *)

MaxEntries == 6

MaxQueue == 2

MaxLogged == 1

MaxNew == 1

---------------------------------------------------------------------------
(* Inputs *)

InitialTexts == <<"hours", "password", "refunds", "warranty", "support">>

NewTexts == {"refunds", "shipping"}

Queries == {"q_hours", "q_warranty"}

CertaintyLength == 50

DefaultTopK == 2

RespLens == {CertaintyLength, CertaintyLength + 1}

KValues == {-1, 0, 1, DefaultTopK, MaxEntries + 1}

NValues == (-1) .. (MaxQueue + 1)

Threads == {"t1", "t2"}

NewEntryLists ==
  UNION {[1..n -> NewTexts] : n \in 0..MaxNew}

---------------------------------------------------------------------------
(* Embedding provider and vector arithmetic *)

Embed(t) ==
  CASE t = "hours"      -> <<2, 0>>
    [] t = "password"   -> <<0, 2>>
    [] t = "refunds"    -> <<1, 1>>
    [] t = "warranty"   -> <<1, 2>>
    [] t = "support"    -> <<-1, 0>>
    [] t = "shipping"   -> <<2, 1>>
    [] t = "q_hours"    -> <<1, 0>>
    [] t = "q_warranty" -> <<1, 2>>
    [] OTHER            -> <<0, 0>>

Encode(texts) == [i \in 1..Len(texts) |-> Embed(texts[i])]

Dot(a, b) == a[1] * b[1] + a[2] * b[2]

Abs(x) == IF x < 0 THEN -x ELSE x

\* squared norm as used by the normalisation: a zero norm is replaced by 1
NormSq(a) == IF Dot(a, a) = 0 THEN 1 ELSE Dot(a, a)

\* cosine(q, a) <= cosine(q, b), compared exactly:
\* x/sqrt(A) <= y/sqrt(B)  iff  x|x|B <= y|y|A
CosLeq(q, a, b) ==
  Dot(q, a) * Abs(Dot(q, a)) * NormSq(b) <= Dot(q, b) * Abs(Dot(q, b)) * NormSq(a)

CosEq(q, a, b) == CosLeq(q, a, b) /\ CosLeq(q, b, a)

---------------------------------------------------------------------------
(* Sequences *)

Reverse(s) == [i \in 1..Len(s) |-> s[Len(s) + 1 - i]]

Min2(a, b) == IF a < b THEN a ELSE b

Max2(a, b) == IF a > b THEN a ELSE b

\* s[-k:] with Python's slice semantics
SliceLast(s, k) ==
  LET n     == Len(s)
      start == IF -k < 0 THEN Max2(n - k, 0) ELSE Min2(-k, n)
  IN  SubSeq(s, start + 1, n)

\* similarities.argsort(): every ascending order of the positions of emb;
\* the order among equal similarities is not fixed by the sort
RECURSIVE AscOrders(_, _, _)
AscOrders(S, q, emb) ==
  IF S = {} THEN {<<>>}
  ELSE UNION {{<<i>> \o rest : rest \in AscOrders(S \ {i}, q, emb)} :
              i \in {m \in S : \A j \in S : CosLeq(q, emb[m], emb[j])}}

ArgSort(q, emb) == AscOrders(1..Len(emb), q, emb)

---------------------------------------------------------------------------
(* Result records *)

NoRet ==
  [op |-> "none", outcome |-> "none", fault |-> "none", query |-> "", arg |-> 0,
   result |-> <<>>, indices |-> <<>>, encoded |-> FALSE, clustered |-> FALSE,
   raw |-> -1, labels |-> <<>>]

NoLoc == [query |-> "", k |-> 0, emb |-> <<>>, indices |-> <<>>, m |-> -1, n |-> -1,
          result |-> <<>>]

Init ==
  /\ knowledge_base = InitialTexts
  /\ knowledge_embeddings = Encode(InitialTexts)
  /\ uncertain_queries = <<>>
  /\ analytics_logged = 0
  /\ ret = NoRet
  /\ pc = [t \in Threads |-> "idle"]
  /\ loc = [t \in Threads |-> NoLoc]

---------------------------------------------------------------------------
(* ActiveLearningSystem.update_knowledge_base *)

\* line 131 extends the list in place; line 133 re-encodes the whole list and
\* rebinds the global matrix.  When encode raises, line 131 has already run.
update_knowledge_base(new_entries, encode_fails) ==
  /\ Len(knowledge_base) + Len(new_entries) <= MaxEntries
  /\ knowledge_base' = knowledge_base \o new_entries
  /\ knowledge_embeddings' =
       IF encode_fails THEN knowledge_embeddings ELSE Encode(knowledge_base')
  /\ ret' = [NoRet EXCEPT !.op = "update",
                          !.outcome = IF encode_fails THEN "raise" ELSE "return",
                          !.fault = IF encode_fails THEN "provider" ELSE "none",
                          !.arg = Len(new_entries),
                          !.encoded = TRUE]
  /\ UNCHANGED <<uncertain_queries, analytics_logged, pc, loc>>

---------------------------------------------------------------------------
(* retrieve_relevant_context *)

\* similarities.argsort()[-top_k:][::-1]
TopIndices(order, top_k) == Reverse(SliceLast(order, top_k))

\* [knowledge_base[i] for i in top_indices]
Lookup(kb, idx) == [i \in 1..Len(idx) |-> kb[idx[i]]]

\* what fails inside the try block, if anything
RetrieveFault(encode_fails, kb, emb, idx) ==
  IF encode_fails THEN "provider"
  ELSE IF Len(emb) = 0 THEN "similarity"
  ELSE IF \E i \in 1..Len(idx) : idx[i] > Len(kb) THEN "index"
  ELSE "none"

\* variant: the failure reaches the caller
retrieve_except_propagates(fault, value) ==
  IF fault # "none" THEN [outcome |-> "raise", result |-> <<>>]
  ELSE [outcome |-> "return", result |-> value]

\* the except clause: log and return []
retrieve_except(fault, value) ==
  IF fault # "none" THEN [outcome |-> "return", result |-> <<>>]
  ELSE [outcome |-> "return", result |-> value]

\* order: the permutation argsort produced for this call
retrieve_relevant_context(query, top_k, encode_fails, order) ==
  LET idx   == TopIndices(order, top_k)
      fault == RetrieveFault(encode_fails, knowledge_base,
                             knowledge_embeddings, idx)
      value == IF fault = "none" THEN Lookup(knowledge_base, idx) ELSE <<>>
      r     == retrieve_except(fault, value)
  IN  /\ ret' = [NoRet EXCEPT !.op = "retrieve",
                              !.outcome = r.outcome,
                              !.fault = fault,
                              !.query = query,
                              !.arg = top_k,
                              !.result = r.result,
                              !.indices = IF fault = "none" THEN idx ELSE <<>>,
                              !.encoded = TRUE]
      /\ UNCHANGED <<knowledge_base, knowledge_embeddings, uncertain_queries,
                     analytics_logged, pc, loc>>

---------------------------------------------------------------------------
(* ActiveLearningSystem.evaluate_certainty / add_uncertain_query,          *)
(* AnalyticsSystem.log_interaction, generate_response                      *)

\* variant: a response of exactly the threshold length counts as certain
evaluate_certainty_inclusive(query, response) == response >= CertaintyLength

evaluate_certainty(query, response) == response > CertaintyLength

add_uncertain_query(queue, query, response) == Append(queue, <<query, response>>)

\* the four parallel lists grow by one element each; only their common
\* length is kept
log_interaction(logged) == logged + 1

\* fail_at: the call that raises inside the try block, if any
\*   "client"  line 236, "sentiment246" line 246 (before the certainty check),
\*   "sentiment254" line 254 (after it), "none"
generate_response(query, raw_response, fail_at) ==
  LET reached_check == fail_at \in {"sentiment254", "none"}
      uncertain     == reached_check /\ ~evaluate_certainty(query, raw_response)
      logs          == fail_at = "none"
  IN  /\ uncertain => Len(uncertain_queries) < MaxQueue
      /\ logs => analytics_logged < MaxLogged
      /\ uncertain_queries' =
           IF uncertain
             THEN add_uncertain_query(uncertain_queries, query, raw_response)
             ELSE uncertain_queries
      /\ analytics_logged' =
           IF logs THEN log_interaction(analytics_logged)
           ELSE analytics_logged
      /\ ret' = [NoRet EXCEPT !.op = "generate",
                              !.outcome = "return",
                              !.fault = fail_at,
                              !.query = query,
                              !.raw = IF fail_at = "client" THEN -1 ELSE raw_response,
                              !.encoded = TRUE]
      /\ UNCHANGED <<knowledge_base, knowledge_embeddings, pc, loc>>

GenerateFailPoints == {"client", "sentiment246", "sentiment254", "none"}

---------------------------------------------------------------------------
(* ActiveLearningSystem.cluster_uncertain_queries *)

\* variant: the short-circuit test is off by one
TooFewCases_off_by_one(queue, n_clusters) == Len(queue) + 1 < n_clusters

\* line 109: the short-circuit test
TooFewCases(queue, n_clusters) == Len(queue) < n_clusters

\* KMeans(n_clusters).fit(embeddings).labels_: a label in 0..n_clusters-1 for
\* every row; rows with equal embeddings get the same label, and as many
\* clusters are populated as the distinct rows allow
KMeansLabels(embeddings, n_clusters) ==
  LET L    == Len(embeddings)
      rows == {embeddings[j] : j \in 1..L}
  IN  {[j \in 1..L |-> f[embeddings[j]]] :
         f \in {g \in [rows -> 0..(n_clusters - 1)] :
                  Cardinality({g[r] : r \in rows})
                    = Min2(n_clusters, Cardinality(rows))}}

\* np.where(kmeans.labels_ == i)[0]
ClusterIndices(labels, i) == {j \in 1..Len(labels) : labels[j] = i}

RECURSIVE SumCoord(_, _, _)
SumCoord(embeddings, S, d) ==
  IF S = {} THEN 0
  ELSE LET j == CHOOSE x \in S : TRUE
       IN  embeddings[j][d] + SumCoord(embeddings, S \ {j}, d)

\* squared distance of row j to the mean of the rows in S, scaled by |S|^2
DistSq(embeddings, S, j) ==
  LET c  == Cardinality(S)
      dx == c * embeddings[j][1] - SumCoord(embeddings, S, 1)
      dy == c * embeddings[j][2] - SumCoord(embeddings, S, 2)
  IN  dx * dx + dy * dy

\* cluster_indices[np.argmin(distances)]: first member at minimum distance
Representative(embeddings, S) ==
  CHOOSE j \in S :
    /\ \A m \in S : DistSq(embeddings, S, j) <= DistSq(embeddings, S, m)
    /\ \A m \in S : (m < j) => DistSq(embeddings, S, m) > DistSq(embeddings, S, j)

ClusterFault(encode_fails, n_clusters, labels) ==
  IF encode_fails THEN "provider"
  ELSE IF n_clusters <= 0 THEN "kmeans"
  ELSE IF \E i \in 0..(n_clusters - 1) : ClusterIndices(labels, i) = {} THEN "argmin"
  ELSE "none"

cluster_uncertain_queries(n_clusters, encode_fails) ==
  IF TooFewCases(uncertain_queries, n_clusters)
  THEN /\ ~encode_fails
       /\ ret' = [NoRet EXCEPT !.op = "cluster",
                               !.outcome = "return",
                               !.arg = n_clusters,
                               !.result = uncertain_queries]
       /\ UNCHANGED <<knowledge_base, knowledge_embeddings, uncertain_queries,
                      analytics_logged, pc, loc>>
  ELSE LET queries    == [j \in 1..Len(uncertain_queries) |-> uncertain_queries[j][1]]
           embeddings == Encode(queries)
           labelings  == IF encode_fails \/ n_clusters <= 0 THEN {<<>>}
                         ELSE KMeansLabels(embeddings, n_clusters)
       IN  \E labels \in labelings :
             LET fault == ClusterFault(encode_fails, n_clusters, labels)
                 reps  == IF fault = "none"
                          THEN [i \in 1..n_clusters |->
                                  Representative(embeddings, ClusterIndices(labels, i - 1))]
                          ELSE <<>>
             IN  /\ ret' = [NoRet EXCEPT !.op = "cluster",
                                         !.outcome = IF fault = "none" THEN "return" ELSE "raise",
                                         !.fault = fault,
                                         !.arg = n_clusters,
                                         !.result = Lookup(uncertain_queries, reps),
                                         !.indices = reps,
                                         !.encoded = TRUE,
                                         !.clustered = ~encode_fails,
                                         !.labels = labels]
                 /\ UNCHANGED <<knowledge_base, knowledge_embeddings, uncertain_queries,
                                analytics_logged, pc, loc>>

---------------------------------------------------------------------------
(* One call at a time *)

Update == \E new_entries \in NewEntryLists, f \in BOOLEAN :
            update_knowledge_base(new_entries, f)

Retrieve == \E q \in Queries :
              \E order \in ArgSort(Embed(q), knowledge_embeddings) :
                \E k \in KValues, f \in BOOLEAN :
                  retrieve_relevant_context(q, k, f, order)

Generate == \E q \in Queries, r \in RespLens, at \in GenerateFailPoints :
              generate_response(q, r, at)

Cluster == \E n \in NValues, f \in BOOLEAN : cluster_uncertain_queries(n, f)

Next == Update \/ Retrieve \/ Generate \/ Cluster

Spec == Init /\ [][Next]_vars

---------------------------------------------------------------------------
(* Calls running in threads: update_knowledge_base and                     *)
(* retrieve_relevant_context take no lock, so their statements interleave. *)

\* line 131
u_extend(t, new_entries) ==
  /\ pc[t] = "idle"
  /\ Len(knowledge_base) + Len(new_entries) <= MaxEntries
  /\ knowledge_base' = knowledge_base \o new_entries
  /\ pc' = [pc EXCEPT ![t] = "u133_encode"]
  /\ loc' = [loc EXCEPT ![t] = NoLoc]
  /\ UNCHANGED <<knowledge_embeddings, uncertain_queries, analytics_logged, ret>>

\* line 133, right-hand side: encode reads the list as it is now
u_encode(t) ==
  /\ pc[t] = "u133_encode"
  /\ loc' = [loc EXCEPT ![t].emb = Encode(knowledge_base)]
  /\ pc' = [pc EXCEPT ![t] = "u133_store"]
  /\ UNCHANGED <<knowledge_base, knowledge_embeddings, uncertain_queries,
                 analytics_logged, ret>>

\* line 133, assignment to the global
u_store(t) ==
  /\ pc[t] = "u133_store"
  /\ knowledge_embeddings' = loc[t].emb
  /\ pc' = [pc EXCEPT ![t] = "idle"]
  /\ loc' = [loc EXCEPT ![t] = NoLoc]
  /\ UNCHANGED <<knowledge_base, uncertain_queries, analytics_logged, ret>>

\* line 216
r_encode(t, query, top_k) ==
  /\ pc[t] = "idle"
  /\ loc' = [loc EXCEPT ![t] = [NoLoc EXCEPT !.query = query, !.k = top_k]]
  /\ pc' = [pc EXCEPT ![t] = "r217"]
  /\ UNCHANGED <<knowledge_base, knowledge_embeddings, uncertain_queries,
                 analytics_logged, ret>>

\* lines 217-218: reads the global matrix
r_similar(t) ==
  /\ pc[t] = "r217"
  /\ \E order \in ArgSort(Embed(loc[t].query), knowledge_embeddings) :
       loc' = [loc EXCEPT ![t].indices = TopIndices(order, loc[t].k),
                          ![t].m = Len(knowledge_embeddings)]
  /\ pc' = [pc EXCEPT ![t] = "r219"]
  /\ UNCHANGED <<knowledge_base, knowledge_embeddings, uncertain_queries,
                 analytics_logged, ret>>

\* line 219: reads the list
r_index(t) ==
  /\ pc[t] = "r219"
  /\ LET fault == RetrieveFault(FALSE, knowledge_base, knowledge_embeddings,
                                loc[t].indices)
         value == IF fault = "none" THEN Lookup(knowledge_base, loc[t].indices)
                  ELSE <<>>
     IN  loc' = [loc EXCEPT ![t].result = retrieve_except(fault, value).result,
                            ![t].n = Len(knowledge_base)]
  /\ pc' = [pc EXCEPT ![t] = "idle"]
  /\ UNCHANGED <<knowledge_base, knowledge_embeddings, uncertain_queries,
                 analytics_logged, ret>>

UExtend == \E t \in Threads, new_entries \in NewEntryLists : u_extend(t, new_entries)

UEncode == \E t \in Threads : u_encode(t)

UStore == \E t \in Threads : u_store(t)

REncode == \E t \in Threads, q \in Queries, k \in {1, DefaultTopK} : r_encode(t, q, k)

RSimilar == \E t \in Threads : r_similar(t)

RIndex == \E t \in Threads : r_index(t)

NextConc == UExtend \/ UEncode \/ UStore \/ REncode \/ RSimilar \/ RIndex

SpecConc == Init /\ [][NextConc]_vars

---------------------------------------------------------------------------
(* Properties *)

Similarity(q, kb, a, b) == CosLeq(Embed(q), Embed(kb[a]), Embed(kb[b]))

Position(idx, i) == CHOOSE p \in 1..Len(idx) : idx[p] = i

\* C1: after every update_knowledge_base call, whether it returned or raised,
\* the knowledge base has as many entries as there are embedding vectors.
C1_LengthsAgree == Len(knowledge_base) = Len(knowledge_embeddings)

\* C2: an update_knowledge_base call whose encode fails leaves both the
\* knowledge base and the embedding matrix exactly as they were.
C2_AppendAllOrNothing ==
  [][(ret'.op = "update" /\ ret'.fault = "provider")
       => (knowledge_base' = knowledge_base
           /\ knowledge_embeddings' = knowledge_embeddings)]_vars

\* C3: for a knowledge base of n >= 1 entries and k >= 1, a retrieval that
\* did not fail returns min(k, n) entries, the ones most similar to the query,
\* in non-increasing order of similarity.
C3_TopKMostSimilar ==
  (ret.op = "retrieve" /\ ret.fault = "none" /\ ret.arg >= 1
     /\ Len(knowledge_base) >= 1)
  => LET idx == ret.indices
         n   == Len(knowledge_base)
     IN  /\ Len(ret.result) = Min2(ret.arg, n)
         /\ \A p \in 1..Len(idx) : idx[p] \in 1..n
         /\ \A p, r \in 1..Len(idx) : p # r => idx[p] # idx[r]
         /\ ret.result = Lookup(knowledge_base, idx)
         /\ \A p, r \in 1..Len(idx) :
              p < r => Similarity(ret.query, knowledge_base, idx[r], idx[p])
         /\ \A j \in 1..n :
              (\A p \in 1..Len(idx) : idx[p] # j)
                => \A p \in 1..Len(idx) :
                     Similarity(ret.query, knowledge_base, j, idx[p])

\* C4: in a retrieval result, of two entries equally similar to the query the
\* one with the lower id comes first, and is the one kept when only one fits.
C4_TieLowestIdFirst ==
  (ret.op = "retrieve" /\ ret.fault = "none" /\ ret.arg >= 1)
  => LET idx  == ret.indices
         used == {idx[p] : p \in 1..Len(idx)}
         m    == Len(knowledge_embeddings)
     IN  \A a, b \in 1..m :
           (a < b /\ b \in used
              /\ CosLeq(Embed(ret.query), knowledge_embeddings[a], knowledge_embeddings[b])
              /\ CosLeq(Embed(ret.query), knowledge_embeddings[b], knowledge_embeddings[a]))
           => (a \in used /\ Position(idx, a) < Position(idx, b))

\* C5: with at least n_clusters >= 1 queued cases, whatever labels k-means
\* produces, clustering returns n_clusters cases, the i-th from cluster i.
C5_OnePerCluster ==
  (ret.op = "cluster" /\ ret.clustered /\ ret.arg >= 1)
  => /\ ret.outcome = "return"
     /\ Len(ret.result) = ret.arg
     /\ \A i \in 1..ret.arg :
          /\ ret.indices[i] \in 1..Len(uncertain_queries)
          /\ ret.labels[ret.indices[i]] = i - 1
          /\ ret.result[i] = uncertain_queries[ret.indices[i]]

\* C6: with fewer queued cases than n_clusters, clustering returns the queue
\* as it is, calls neither the embedding provider nor k-means, and leaves the
\* queue untouched.
C6_ShortCircuit ==
  [][(ret'.op = "cluster" /\ Len(uncertain_queries) < ret'.arg)
       => /\ ret'.outcome = "return"
          /\ ret'.result = uncertain_queries
          /\ ~ret'.encoded
          /\ ~ret'.clustered
          /\ uncertain_queries' = uncertain_queries]_vars

C6_Witness ==
  /\ ret.op = "cluster"
  /\ Len(uncertain_queries) = 2
  /\ ret.arg = 3
  /\ ret.result = uncertain_queries
  /\ ~ret.encoded

C8_QueueAppendOnly ==
  [][LET flagged == /\ ret'.op = "generate"
                    /\ ret'.fault \in {"none", "sentiment254"}
                    /\ ret'.raw <= CertaintyLength
     IN  /\ flagged => uncertain_queries' =
                         Append(uncertain_queries, <<ret'.query, ret'.raw>>)
         /\ (ret'.op = "generate" /\ ~flagged)
              => uncertain_queries' = uncertain_queries
         /\ Len(uncertain_queries') >= Len(uncertain_queries)
         /\ SubSeq(uncertain_queries', 1, Len(uncertain_queries)) = uncertain_queries]_vars

C8_Witness ==
  /\ ret.op = "generate"
  /\ ret.fault = "none"
  /\ ret.raw = CertaintyLength
  /\ Len(uncertain_queries) >= 2
  /\ uncertain_queries[Len(uncertain_queries)] = <<ret.query, ret.raw>>

\* C9: a call with top_k <= 0 or n_clusters <= 0 ends in an error and never
\* in a result that contains entries or cases.
C9_NonPositiveFailsFast ==
  (ret.op \in {"retrieve", "cluster"} /\ ret.arg <= 0)
  => (ret.fault # "none" /\ ret.result = <<>>)

\* C10: while an update is between extending the list and replacing the
\* matrix no other call is in progress, and no retrieval reads a matrix and
\* a list of different lengths.
C10_AppendExcludesAll ==
  /\ \A t \in Threads :
       pc[t] \in {"u133_encode", "u133_store"}
         => \A u \in Threads \ {t} : pc[u] = "idle"
  /\ \A t \in Threads : loc[t].n # -1 => loc[t].m = loc[t].n

====
